---- MODULE Spec2Model ----
(***************************************************************************)
(* FirebaseDataSource (src/index.js): an Apollo data source that keeps one *)
(* active user per instance, gates every operation on it, and reads and    *)
(* writes documents of a Firestore collection, paged with a client-held    *)
(* cursor of boundary document ids.                                        *)
(*                                                                         *)
(* The identity provider and the document store are external: the model    *)
(* keeps the store's contents as state, draws the provider's answers from  *)
(* small sets, and records every call an operation issues in last.calls.   *)
(***************************************************************************)
EXTENDS Integers, Sequences, FiniteSets, TLC

VARIABLES activeUser, store, defaultCursor, last, client

vars == <<activeUser, store, defaultCursor, last, client>>

(***************************************************************************)
(* Bounds of the model.                                                    *)
(***************************************************************************)
\* Documents of the collection the operations read and write.
MaxDocs == 2
\* Entries the array of the default page options may come to hold.
MaxDefaultCursor == 1
\* Page sizes a call names, besides the default one.
MaxPageSize == 1
\* Documents of the collection a client pages through.
MaxPagedDocs == 3

(***************************************************************************)
(* JavaScript values of claims and of filter values: booleans, strings,    *)
(* numbers, undefined.  A string is the sequence of its characters, so     *)
(* that toLowerCase is computed.                                           *)
(***************************************************************************)
JSBool(x) == [t |-> "boolean", b |-> x, s |-> <<>>, n |-> 0]
JSStr(x) == [t |-> "string", b |-> FALSE, s |-> x, n |-> 0]
JSNum(x) == [t |-> "number", b |-> FALSE, s |-> <<>>, n |-> x]
JSUndefined == [t |-> "undefined", b |-> FALSE, s |-> <<>>, n |-> 0]

LowerChar(c) ==
  CASE c = "T" -> "t" [] c = "R" -> "r" [] c = "U" -> "u" [] c = "E" -> "e"
    [] c = "F" -> "f" [] c = "A" -> "a" [] c = "L" -> "l" [] c = "S" -> "s"
    [] c = "X" -> "x" [] OTHER -> c

toLowerCase(s) == [i \in DOMAIN s |-> LowerChar(s[i])]

\* value.toLowerCase() throws on a non-string; the catch returns the value.
tryParseBool(value) ==
  IF value.t = "string"
  THEN IF toLowerCase(value.s) = <<"t", "r", "u", "e">> THEN JSBool(TRUE)
       ELSE IF toLowerCase(value.s) = <<"f", "a", "l", "s", "e">> THEN JSBool(FALSE)
       ELSE value
  ELSE value

\* JavaScript truthiness of a value.
Truthy(value) ==
  CASE value.t = "boolean" -> value.b
    [] value.t = "string" -> Len(value.s) > 0
    [] value.t = "number" -> value.n # 0
    [] OTHER -> FALSE

reservedClaims ==
  {"acr", "amr", "at_hash", "aud", "auth_time", "azp", "cnf", "c_hash", "exp",
   "firebase", "iat", "iss", "jti", "nbf", "nonce", "sub"}

(***************************************************************************)
(* The claim mappings the identity provider may return.                    *)
(***************************************************************************)
ClaimKeys == {"admin", "iss", "user_id"}

AdminValues ==
  {JSBool(TRUE), JSBool(FALSE), JSStr(<<"T", "R", "U", "E">>),
   JSStr(<<"f", "a", "l", "s", "e">>), JSStr(<<"x">>)}

RawClaims ==
  { f \in UNION {[K -> AdminValues] : K \in SUBSET ClaimKeys} :
      \A k \in DOMAIN f : k # "admin" => f[k] = JSStr(<<"x">>) }

\* The for-in loop of the claim extraction: the keys that are copied.
KeptKeys(raw) == {k \in DOMAIN raw : k \notin reservedClaims}

\* claims after the loop, when at least one key was copied.
CopiedClaims(raw) == [k \in KeptKeys(raw) |-> tryParseBool(raw[k])]

\* `var claims;` stays undefined when no key is copied, and 'admin' in
\* undefined throws a TypeError.
ClaimsUndefined(raw) == KeptKeys(raw) = {}

\* if (!('admin' in claims)) claim = {...}: an assignment to the undeclared
\* name claim, inside a class body (always strict code): a ReferenceError.
AssignsUndeclared(raw) == "admin" \notin KeptKeys(raw)

\* The claim extraction throws.
ExtractionThrows(raw) == ClaimsUndefined(raw) \/ AssignsUndeclared(raw)

(***************************************************************************)
(* this.activeUser: undefined after construction, {errors} after a failed  *)
(* retrieval, or the user with its token and custom claims.                *)
(***************************************************************************)
NoClaims == [k \in {} |-> JSBool(FALSE)]

Undefined ==
  [kind |-> "undefined", uid |-> "", email |-> "", token |-> "", customClaims |-> NoClaims]

ErrorsUser ==
  [kind |-> "errors", uid |-> "", email |-> "", token |-> "", customClaims |-> NoClaims]

User(acct, token, claims) ==
  [kind |-> "user", uid |-> acct.uid, email |-> acct.email, token |-> token,
   customClaims |-> claims]

Accounts == {[uid |-> "u1", email |-> "e1"], [uid |-> "u2", email |-> "e2"]}
Uids == {a.uid : a \in Accounts}
Emails == {a.email : a \in Accounts}
Tokens == {"t1", "t2"}
NoToken == ""

defaultCustomClaims == [k \in {"admin"} |-> JSBool(FALSE)]

\* this.activeUser.errors && this.activeUser.errors.length > 0
HasErrors(u) == u.kind = "errors"

\* this.activeUser && this.activeUser.customClaims.admin
IsAdmin(u) ==
  /\ u.kind = "user"
  /\ "admin" \in DOMAIN u.customClaims
  /\ Truthy(u.customClaims["admin"])

(***************************************************************************)
(* Calls issued to the external collaborators, and the record of the last  *)
(* operation.                                                              *)
(***************************************************************************)
AuthCall(api, arg) == [svc |-> "auth", api |-> api, arg |-> arg]
StoreCall(api, arg) == [svc |-> "store", api |-> api, arg |-> arg]

Done(op, arg, outcome, calls, result) ==
  [op |-> op, arg |-> arg, outcome |-> outcome, calls |-> calls, result |-> result]

Threw(l) == l.outcome # "ok"

StoreCalls(l) == {i \in DOMAIN l.calls : l.calls[i].svc = "store"}
AuthCalls(l, api) == {i \in DOMAIN l.calls : l.calls[i].svc = "auth" /\ l.calls[i].api = api}

(***************************************************************************)
(* retrieveUserFromToken: sign in with the custom token, extract the       *)
(* claims, build the user.  Every failure inside the try is caught and     *)
(* turned into {errors}.  ok, acct and raw are the provider's answer.      *)
(***************************************************************************)
retrieveUserFromToken(token, ok, acct, raw) ==
  IF token = NoToken THEN ErrorsUser
  ELSE IF ~ok THEN ErrorsUser
  ELSE IF ExtractionThrows(raw) THEN ErrorsUser
  ELSE User(acct, token, CopiedClaims(raw))

retrieveCalls(token, ok) ==
  IF token = NoToken THEN <<>>
  ELSE IF ~ok THEN <<AuthCall("signInWithCustomToken", token)>>
  ELSE <<AuthCall("signInWithCustomToken", token), AuthCall("getIdTokenResult", token)>>

\* retrieveUserFromRequest: the token is the x-token header, if any.
retrieveUserFromRequest(header, ok, acct, raw) ==
  IF header # NoToken THEN retrieveUserFromToken(header, ok, acct, raw)
  ELSE ErrorsUser

\* What the provider answered, as far as the record of a call keeps it:
\* whether it verified the caller, and whether its claims held admin.
Answer(verified, raw) ==
  [verified |-> verified, hadAdmin |-> verified /\ "admin" \in DOMAIN raw]

\* initialize(config): called once by the framework on a fresh instance.
Initialize ==
  /\ activeUser.kind = "undefined"
  /\ \E header \in Tokens \cup {NoToken}, ok \in BOOLEAN, acct \in Accounts, raw \in RawClaims :
       /\ activeUser' = retrieveUserFromRequest(header, ok, acct, raw)
       /\ last' = Done("initialize", Answer(header # NoToken /\ ok, raw), "ok",
                       retrieveCalls(header, ok),
                       retrieveUserFromRequest(header, ok, acct, raw))
  /\ UNCHANGED <<store, defaultCursor, client>>

\* userSignUp(args): the provider creates the account or rejects.
UserSignUp ==
  /\ \E ok \in BOOLEAN, acct \in Accounts, token \in Tokens :
       IF ok
       THEN /\ activeUser' = User(acct, token, defaultCustomClaims)
            /\ last' = Done("userSignUp", acct.email, "ok",
                            <<AuthCall("createUserWithEmailAndPassword", acct.email),
                              AuthCall("createCustomToken", [uid |-> acct.uid, claims |-> defaultCustomClaims]),
                              AuthCall("setCustomUserClaims", [uid |-> acct.uid, claims |-> defaultCustomClaims])>>,
                            User(acct, token, defaultCustomClaims))
       ELSE /\ activeUser' = activeUser
            /\ last' = Done("userSignUp", acct.email, "UpstreamError",
                            <<AuthCall("createUserWithEmailAndPassword", acct.email)>>, Undefined)
  /\ UNCHANGED <<store, defaultCursor, client>>

\* The outcome of the try block of userSignIn; its catch rethrows.
SignInOutcome(ok, raw) ==
  IF ~ok THEN "UpstreamError"
  ELSE IF ClaimsUndefined(raw) THEN "TypeError"
  ELSE IF AssignsUndeclared(raw) THEN "ReferenceError"
  ELSE "ok"

\* userSignIn(args)
UserSignIn ==
  /\ \E ok \in BOOLEAN, acct \in Accounts, raw \in RawClaims, token \in Tokens :
       LET outcome == SignInOutcome(ok, raw)
           signIn == <<AuthCall("signInWithEmailAndPassword", acct.email)>>
           idToken == <<AuthCall("getIdTokenResult", acct.uid)>>
       IN  IF outcome = "ok"
           THEN /\ activeUser' = User(acct, token, CopiedClaims(raw))
                /\ last' = Done("userSignIn", Answer(TRUE, raw), "ok",
                                signIn \o idToken \o
                                <<AuthCall("createCustomToken", [uid |-> acct.uid, claims |-> CopiedClaims(raw)])>>,
                                User(acct, token, CopiedClaims(raw)))
           ELSE /\ activeUser' = activeUser
                /\ last' = Done("userSignIn", Answer(ok, raw), outcome,
                                IF ok THEN signIn \o idToken ELSE signIn, Undefined)
  /\ UNCHANGED <<store, defaultCursor, client>>

\* A match test that looks at the session only, to set against TokenMismatch.
MismatchWithoutToken(u, token) == u.kind # "user"

\* !this.activeUser || this.activeUser.token !== token
TokenMismatch(u, token) == u.kind = "undefined" \/ u.token # token

\* The record of a refresh keeps the token it was called with as well.
RefreshArg(token, verified, raw) ==
  [verified |-> verified, hadAdmin |-> verified /\ "admin" \in DOMAIN raw,
   token |-> token]

\* userRefreshIdToken(token): returns the refreshed user, or {errors}; it
\* never assigns this.activeUser.  createCustomToken issues a token other
\* than the one that was presented.
UserRefreshIdToken ==
  /\ \E token \in Tokens \cup {NoToken}, ok \in BOOLEAN, raw \in RawClaims,
        newToken \in Tokens :
       LET acct == [uid |-> activeUser.uid, email |-> activeUser.email]
           arg == RefreshArg(token, ok, raw)
           none == RefreshArg(token, FALSE, raw)
           signIn == <<AuthCall("signInWithCustomToken", token)>>
           idToken == <<AuthCall("getIdTokenResult", token)>>
       IN  IF newToken = token THEN FALSE
           ELSE IF token = NoToken
           THEN last' = Done("userRefreshIdToken", none, "ok", <<>>, ErrorsUser)
           ELSE IF TokenMismatch(activeUser, token)
           THEN last' = Done("userRefreshIdToken", none, "TokenMismatch", <<>>, Undefined)
           ELSE IF ~ok
           THEN last' = Done("userRefreshIdToken", arg, "ok", signIn, ErrorsUser)
           ELSE IF ExtractionThrows(raw)
           THEN last' = Done("userRefreshIdToken", arg, "ok", signIn \o idToken, ErrorsUser)
           ELSE last' = Done("userRefreshIdToken", arg, "ok",
                             signIn \o idToken \o
                             <<AuthCall("createCustomToken", [uid |-> acct.uid, claims |-> CopiedClaims(raw)])>>,
                             User(acct, newToken, CopiedClaims(raw)))
  /\ UNCHANGED <<activeUser, store, defaultCursor, client>>

\* A gate without the errors test, to set against ErrorsCheck: C1 holds of
\* the one and fails of the other.
ErrorsCheckWithoutTest(u) ==
  IF u.kind = "undefined" THEN "TypeError" ELSE "pass"

(***************************************************************************)
(* The test every gated operation starts with:                             *)
(*   if (this.activeUser.errors && this.activeUser.errors.length > 0)      *)
(*     throw new Error("User authentication error", ...)                   *)
(* Reading .errors of undefined throws a TypeError.                        *)
(***************************************************************************)
ErrorsCheck(u) ==
  IF u.kind = "undefined" THEN "TypeError"
  ELSE IF HasErrors(u) THEN "UserAuthenticationError"
  ELSE "pass"

\* getPageOfUsers(args): the users the provider lists have their claims parsed.
ListedClaims == {r \in RawClaims : DOMAIN r = {"admin"}}

GetPageOfUsers ==
  /\ \E listed \in ListedClaims :
       LET check == ErrorsCheck(activeUser)
       IN  IF check # "pass"
           THEN last' = Done("getPageOfUsers", 0, check, <<>>, Undefined)
           ELSE IF IsAdmin(activeUser)
           THEN last' = Done("getPageOfUsers", 0, "ok", <<AuthCall("listUsers", 50)>>,
                             [users |-> <<[k \in DOMAIN listed |-> tryParseBool(listed[k])]>>])
           ELSE last' = Done("getPageOfUsers", 0, "ok", <<>>, Undefined)
  /\ UNCHANGED <<activeUser, store, defaultCursor, client>>

(***************************************************************************)
(* updateUserInfo(user).  The argument is an object with any of the keys   *)
(* uid, email and customClaims.                                            *)
(***************************************************************************)
ClaimArg(c) == IF c = 1 THEN "admin" :> JSBool(TRUE) ELSE "editor" :> JSBool(TRUE)

UserArg(u, e, c) ==
  (IF u = "" THEN <<>> ELSE "uid" :> u) @@
  (IF e = "" THEN <<>> ELSE "email" :> e) @@
  (IF c = 0 THEN <<>> ELSE "customClaims" :> ClaimArg(c))

\* this.activeUser && (this.activeUser.customClaims.admin || user.email === this.activeUser.email)
SelfOrAdmin(u, user) ==
  IsAdmin(u) \/ (u.kind = "user" /\ "email" \in DOMAIN user /\ user["email"] = u.email)

\* customClaims = { admin: false, ...user.customClaims }
MergedClaims(user) ==
  IF "customClaims" \in DOMAIN user
  THEN user["customClaims"] @@ defaultCustomClaims
  ELSE defaultCustomClaims

\* The calls updateUserInfo issues once the uid is known.
UpdateCalls(user) ==
  (IF "customClaims" \in DOMAIN user
   THEN <<AuthCall("setCustomUserClaims", [uid |-> user["uid"], claims |-> MergedClaims(user)])>>
   ELSE <<>>) \o
  (IF DOMAIN user \ {"uid", "customClaims"} # {}
   THEN <<AuthCall("updateUser", [uid |-> user["uid"], claims |-> NoClaims])>>
   ELSE <<>>)

UpdateUserInfo ==
  /\ \E u \in Uids \cup {""}, e \in Emails \cup {""}, c \in 0..2 :
       LET user == UserArg(u, e, c)
           check == ErrorsCheck(activeUser)
       IN  IF check # "pass"
           THEN last' = Done("updateUserInfo", user, check, <<>>, Undefined)
           ELSE IF ~SelfOrAdmin(activeUser, user)
           THEN last' = Done("updateUserInfo", user, "ok", <<>>, Undefined)
           ELSE IF "uid" \notin DOMAIN user
           THEN last' = Done("updateUserInfo", user, "NoUid", <<>>, Undefined)
           ELSE last' = Done("updateUserInfo", user, "ok", UpdateCalls(user),
                             [uid |-> user["uid"], customClaims |-> MergedClaims(user)])
  /\ UNCHANGED <<activeUser, store, defaultCursor, client>>

(***************************************************************************)
(* The document store: one collection, a function from the ids of the      *)
(* documents that exist to their field data.  Field age is a number, and   *)
(* a document may hold a field that is itself named id.                    *)
(***************************************************************************)
DocNames == <<"a", "b", "c", "d", "e", "f">>
DocIds == {DocNames[i] : i \in 1..MaxDocs}
Ages == {5, 9}

\* The order of the strings the model uses (Firestore orders strings).
StrRank(x) ==
  IF x = "" THEN 0 ELSE CHOOSE i \in DOMAIN DocNames : DocNames[i] = x

\* Field data the operations can have written: data.id is deleted before a
\* write only when it is truthy, so an empty id field is stored.
StoredData ==
  {"age" :> n : n \in Ages} \cup {("id" :> "") @@ ("age" :> n) : n \in Ages}

Stores(ids) == UNION {[S -> StoredData] : S \in SUBSET ids}

\* { id: documentSnapshot.id, ...documentSnapshot.data() }: the spread of
\* the data comes second, so its keys overwrite the ones before it.
Decode(id, data) == data @@ ("id" :> id)

\* delete data.id
WithoutId(data) == [k \in DOMAIN data \ {"id"} |-> data[k]]

\* A test for the key alone, to set against HasId.
HasIdKey(data) == "id" \in DOMAIN data

\* if (data.id): a missing or empty id is falsy.
HasId(data) == "id" \in DOMAIN data /\ data["id"] # ""

(***************************************************************************)
(* Comma-joined specifications.  A string is the sequence of its commas    *)
(* and of the words between them; split(',') yields the words, an empty    *)
(* word where two commas (or a comma and an end) meet.                     *)
(***************************************************************************)
RECURSIVE FirstComma(_, _)
FirstComma(s, i) ==
  IF i > Len(s) THEN 0 ELSE IF s[i] = "," THEN i ELSE FirstComma(s, i + 1)

Word(s) == IF s = <<>> THEN "" ELSE s[1]

RECURSIVE Split(_)
Split(s) ==
  LET c == FirstComma(s, 1)
  IN  IF c = 0 THEN <<Word(s)>>
      ELSE <<Word(SubSeq(s, 1, c - 1))>> \o Split(SubSeq(s, c + 1, Len(s)))

\* sortOrderArray[index] ? sortOrderArray[index] : "asc"
DirectionAt(sortOrderArray, index) ==
  IF index <= Len(sortOrderArray) /\ sortOrderArray[index] # ""
  THEN sortOrderArray[index] ELSE "asc"

\* The (field, direction) pairs handed to queryRef.orderBy, in order.
OrderByCalls(filterOptions) ==
  IF filterOptions.orderBy # <<>>
  THEN LET fields == Split(filterOptions.orderBy)
           sortOrderArray == Split(filterOptions.sortOrder)
       IN  [i \in DOMAIN fields |->
              [field |-> fields[i], dir |-> DirectionAt(sortOrderArray, i)]]
  ELSE <<>>

\* item.fieldName && item.fieldName !== "" && item.value && item.value !== "" && item.operator
\* A key the item lacks reads as undefined: "" for the two string keys.
ItemKey(item, k) == IF k \in DOMAIN item THEN item[k] ELSE ""
ItemValue(item) == IF "value" \in DOMAIN item THEN item["value"] ELSE JSUndefined

\* A test without the operator, to set against ForwardsWhere.
ForwardsWithoutOperator(item) ==
  /\ ItemKey(item, "fieldName") # ""
  /\ Truthy(ItemValue(item)) /\ ItemValue(item) # JSStr(<<>>)

ForwardsWhere(item) ==
  /\ ItemKey(item, "fieldName") # ""
  /\ Truthy(ItemValue(item)) /\ ItemValue(item) # JSStr(<<>>)
  /\ ItemKey(item, "operator") # ""

RECURSIVE WhereCalls(_)
WhereCalls(where) ==
  IF where = <<>> THEN <<>>
  ELSE (IF ForwardsWhere(Head(where))
        THEN <<[field |-> Head(where)["fieldName"], op |-> Head(where)["operator"],
                value |-> Head(where)["value"]]>>
        ELSE <<>>) \o WhereCalls(Tail(where))

(***************************************************************************)
(* The store's side of a query: orderBy and where refine, startAfter       *)
(* positions after a snapshot, limit cuts.  An ordered query returns only  *)
(* documents holding every ordering field, sorted by those fields and then *)
(* by document id in the direction of the last ordering.                   *)
(***************************************************************************)
ValidOrder(o) == o.field \in {"age", "id"} /\ o.dir \in {"asc", "desc"}

FieldRank(f, data) == IF f = "id" THEN StrRank(data[f]) ELSE data[f]

\* An equality predicate on the numeric field.
Satisfies(data, w) ==
  /\ w.field \in DOMAIN data
  /\ w.op = "=="
  /\ w.field = "age"
  /\ w.value.t = "number"
  /\ data[w.field] = w.value.n

Matches(st, orders, wheres) ==
  {d \in DOMAIN st :
     /\ \A i \in DOMAIN orders : orders[i].field \in DOMAIN st[d]
     /\ \A i \in DOMAIN wheres : Satisfies(st[d], wheres[i])}

IdDir(orders) == IF orders = <<>> THEN "asc" ELSE orders[Len(orders)].dir

Less(dir, x, y) == IF dir = "asc" THEN x < y ELSE y < x

\* d1 comes strictly before d2 in the order of the query.
RECURSIVE Before(_, _, _, _, _)
Before(st, orders, i, d1, d2) ==
  IF i > Len(orders)
  THEN Less(IdDir(orders), StrRank(d1), StrRank(d2))
  ELSE LET x == FieldRank(orders[i].field, st[d1])
           y == FieldRank(orders[i].field, st[d2])
       IN  IF x = y THEN Before(st, orders, i + 1, d1, d2)
           ELSE Less(orders[i].dir, x, y)

RECURSIVE Sorted(_, _, _)
Sorted(st, orders, S) ==
  IF S = {} THEN <<>>
  ELSE LET m == CHOOSE d \in S : \A e \in S \ {d} : Before(st, orders, 1, d, e)
       IN  <<m>> \o Sorted(st, orders, S \ {m})

\* queryRef.startAfter(snapshot) needs a snapshot of a document that exists
\* and holds every ordering field.
ValidSnapshot(st, orders, b) ==
  b \in DOMAIN st /\ \A i \in DOMAIN orders : orders[i].field \in DOMAIN st[b]

\* The ids a query returns; after is "" (no startAfter) or a boundary id.
Execute(st, orders, wheres, after, lim) ==
  LET all == Matches(st, orders, wheres)
      rest == IF after = "" THEN all
              ELSE {d \in all : Before(st, orders, 1, after, d)}
      sorted == Sorted(st, orders, rest)
  IN  SubSeq(sorted, 1, IF Len(sorted) < lim THEN Len(sorted) ELSE lim)

(***************************************************************************)
(* The defaults caller-supplied arguments are merged onto.                 *)
(***************************************************************************)
DefaultPageSize == 20

defaultFilterOptions ==
  [orderBy |-> <<>>, sortOrder |-> <<"asc">>,
   where |-> <<[field |-> "", operator |-> "", value |-> JSStr(<<>>)]>>]

\* { ...this.defaultFilterOptions, ...filterArgs }
MergeFilter(filterArgs) == filterArgs @@ defaultFilterOptions

\* { ...this.defaultPageOptions, ...pageArgs }: without a cursor of its own
\* the call works on the array of the defaults.
MergePage(pageArgs, dflt) ==
  pageArgs @@ [pageSize |-> DefaultPageSize, direction |-> "forward", cursor |-> dflt]

\* The orderBy calls issued: a call the store rejects throws and ends them.
RECURSIVE IssuedOrders(_)
IssuedOrders(orders) ==
  IF orders = <<>> THEN <<>>
  ELSE IF ValidOrder(Head(orders)) THEN <<Head(orders)>> \o IssuedOrders(Tail(orders))
  ELSE <<Head(orders)>>

OrdersRejected(orders) == \E i \in DOMAIN orders : ~ValidOrder(orders[i])

OrderCalls(orders) ==
  [i \in DOMAIN IssuedOrders(orders) |-> StoreCall("orderBy", IssuedOrders(orders)[i])]

WhereStoreCalls(wheres) == [i \in DOMAIN wheres |-> StoreCall("where", wheres[i])]

DecodeAll(st, ids) == [i \in DOMAIN ids |-> Decode(ids[i], st[ids[i]])]

(***************************************************************************)
(* addDocument, updateDocument, deleteDocument, getDocumentById.           *)
(***************************************************************************)
InputData ==
  {"age" :> n : n \in Ages} \cup
  {("id" :> i) @@ ("age" :> n) : i \in DocIds \cup {""}, n \in Ages}

AddDocument ==
  /\ \E data \in InputData, fresh \in DocIds :
       LET check == ErrorsCheck(activeUser)
           id == IF HasId(data) THEN data["id"] ELSE fresh
           written == IF HasId(data) THEN WithoutId(data) ELSE data
           st == (id :> written) @@ store
       IN  IF check # "pass"
           THEN /\ fresh = DocNames[1]
                /\ store' = store
                /\ last' = Done("addDocument", data, check, <<>>, Undefined)
           ELSE /\ HasId(data) => fresh = DocNames[1]
                /\ ~HasId(data) => fresh \notin DOMAIN store
                /\ store' = st
                /\ last' = Done("addDocument", data, "ok",
                                <<StoreCall("collection", "")>> \o
                                (IF HasId(data)
                                 THEN <<StoreCall("doc", id), StoreCall("set", id)>>
                                 ELSE <<StoreCall("add", id)>>) \o
                                <<StoreCall("get", id)>>,
                                [snapshots |-> <<id>>, documents |-> DecodeAll(st, <<id>>)])
  /\ UNCHANGED <<activeUser, defaultCursor, client>>

\* documentReference.set(data, { merge: true })
Merged(st, id, data) == IF id \in DOMAIN st THEN data @@ st[id] ELSE data

UpdateDocument ==
  /\ \E data \in InputData :
       LET check == ErrorsCheck(activeUser)
       IN  IF check # "pass"
           THEN /\ store' = store
                /\ last' = Done("updateDocument", data, check, <<>>, Undefined)
           ELSE IF ~HasId(data)
           THEN /\ store' = store
                /\ last' = Done("updateDocument", data, "NoDocId", <<>>, Undefined)
           ELSE /\ store' = (data["id"] :> Merged(store, data["id"], WithoutId(data))) @@ store
                /\ last' = Done("updateDocument", data, "ok",
                                <<StoreCall("collection", ""), StoreCall("doc", data["id"]),
                                  StoreCall("set", data["id"])>>, TRUE)
  /\ UNCHANGED <<activeUser, defaultCursor, client>>

DeleteDocument ==
  /\ \E documentId \in DocIds :
       LET check == ErrorsCheck(activeUser)
       IN  IF check # "pass"
           THEN /\ store' = store
                /\ last' = Done("deleteDocument", documentId, check, <<>>, Undefined)
           ELSE /\ store' = [d \in DOMAIN store \ {documentId} |-> store[d]]
                /\ last' = Done("deleteDocument", documentId, "ok",
                                <<StoreCall("collection", ""), StoreCall("doc", documentId),
                                  StoreCall("delete", documentId)>>, TRUE)
  /\ UNCHANGED <<activeUser, defaultCursor, client>>

GetDocumentById ==
  /\ \E id \in DocIds :
       LET check == ErrorsCheck(activeUser)
           found == IF id \in DOMAIN store THEN <<id>> ELSE <<>>
       IN  IF check # "pass"
           THEN last' = Done("getDocumentById", id, check, <<>>, Undefined)
           ELSE last' = Done("getDocumentById", id, "ok",
                             <<StoreCall("collection", ""), StoreCall("doc", id), StoreCall("get", id)>>,
                             [snapshots |-> found, documents |-> DecodeAll(store, found)])
  /\ UNCHANGED <<activeUser, store, defaultCursor, client>>

(***************************************************************************)
(* The filter and page arguments callers supply.  An argument object holds *)
(* any of its keys; the missing ones come from the defaults.               *)
(***************************************************************************)
AgeIs(n) == [fieldName |-> "age", operator |-> "==", value |-> JSNum(n)]

FilterArgs ==
  { <<>>,
    ("orderBy" :> <<"age">>) @@ ("sortOrder" :> <<"desc">>),
    ("orderBy" :> <<"id", ",", "age">>) @@ ("sortOrder" :> <<"desc">>),
    "orderBy" :> <<"age", ",">>,
    "where" :> <<[fieldName |-> "age", operator |-> "", value |-> JSNum(9)],
                 [fieldName |-> "", operator |-> "==", value |-> JSNum(9)],
                 [fieldName |-> "age", operator |-> "==", value |-> JSStr(<<>>)],
                 AgeIs(0), AgeIs(5)>> }

\* A cursor lists the boundary documents of the pages visited, each once.
RECURSIVE Cursors(_)
Cursors(ids) ==
  {<<>>} \cup UNION {{<<d>> \o c : c \in Cursors(ids \ {d})} : d \in ids}

\* The call without page arguments, and the calls that name a page size.
PageArgs ==
  { <<>> } \cup
  { ("pageSize" :> size) @@
    (IF dir = "" THEN <<>> ELSE "direction" :> dir) @@
    (IF own THEN "cursor" :> cursor ELSE <<>>) :
      size \in 1..MaxPageSize, dir \in {"", "back", "up"},
      own \in BOOLEAN, cursor \in Cursors(DocIds) }

(***************************************************************************)
(* listDocuments and getDocuments: ordering only, then every document.     *)
(* A failure inside the try, "No data." included, is rethrown as           *)
(* 'Function getDocuments failed.'.                                        *)
(***************************************************************************)
ReadAll(op, filterArgs, supported) ==
  LET check == ErrorsCheck(activeUser)
      orders == OrderByCalls(MergeFilter(filterArgs))
      ids == Execute(store, orders, <<>>, "", Cardinality(DOMAIN store))
      built == <<StoreCall("collection", "")>> \o OrderCalls(orders)
  IN  IF check # "pass"
      THEN last' = Done(op, filterArgs, check, <<>>, Undefined)
      ELSE IF OrdersRejected(orders) \/ ~supported
      THEN last' = Done(op, filterArgs, "FunctionFailed", built, Undefined)
      ELSE IF ids = <<>>
      THEN last' = Done(op, filterArgs, "FunctionFailed",
                        Append(built, StoreCall("get", "")), Undefined)
      ELSE last' = Done(op, filterArgs, "ok", Append(built, StoreCall("get", "")),
                        [snapshots |-> ids,
                         documents |-> IF op = "listDocuments"
                                       THEN [i \in DOMAIN ids |-> "id" :> ids[i]]
                                       ELSE DecodeAll(store, ids)])

\* queryRef.listDocuments() is not a method of every store client: where it
\* is missing the call throws inside the try.
ListDocuments ==
  /\ \E filterArgs \in FilterArgs, supported \in BOOLEAN :
       ReadAll("listDocuments", filterArgs, supported)
  /\ UNCHANGED <<activeUser, store, defaultCursor, client>>

GetDocuments ==
  /\ \E filterArgs \in FilterArgs : ReadAll("getDocuments", filterArgs, TRUE)
  /\ UNCHANGED <<activeUser, store, defaultCursor, client>>

(***************************************************************************)
(* getPageOfDocuments: the cursor step, the query, the new boundary.       *)
(***************************************************************************)
\* A back step that drops one boundary only, to set against SliceBack.
SliceBackOne(cursor) == SubSeq(cursor, 1, Len(cursor) - 1)

\* pageOptions.cursor.slice(0, pageOptions.cursor.length - 2): a negative
\* end counts from the end of the array.
SliceBack(cursor) ==
  LET end == Len(cursor) - 2
      stop == IF end >= 0 THEN end
              ELSE IF Len(cursor) + end > 0 THEN Len(cursor) + end ELSE 0
  IN  SubSeq(cursor, 1, stop)

\* The back step replaces the cursor by a slice of it (a new array).
Slices(cursor, direction) == Len(cursor) > 0 /\ direction = "back"

\* pageOptions.cursor after the switch on the direction.
CursorAfterStep(cursor, direction) ==
  IF Slices(cursor, direction) THEN SliceBack(cursor) ELSE cursor

\* A back step that starts after the last boundary it was given, to set
\* against Boundary.
BoundaryOfGiven(cursor, direction) ==
  IF Len(cursor) > 0 /\ direction \in {"forward", "back"}
  THEN cursor[Len(cursor)] ELSE ""

\* The id whose snapshot the query starts after; "" when it starts at the
\* first document.
Boundary(cursor, direction) ==
  IF Len(cursor) > 0 /\ direction = "forward" THEN cursor[Len(cursor)]
  ELSE IF Slices(cursor, direction) /\ Len(SliceBack(cursor)) > 0
  THEN SliceBack(cursor)[Len(SliceBack(cursor))]
  ELSE ""

\* A push of the first id of the page, to set against PushBoundary.
PushFirst(cursor, ids) ==
  IF Len(ids) > 0 THEN Append(cursor, ids[1]) ELSE cursor

\* pageOptions.cursor.push(querySnapshot.docs[querySnapshot.docs.length - 1].id)
PushBoundary(cursor, ids) ==
  IF Len(ids) > 0 THEN Append(cursor, ids[Len(ids)]) ELSE cursor

\* A test that ignores the cursor, to set against NoMorePages.
NoDocuments(documents, cursor) == Len(documents) = 0

\* documents.length === 0 && pageOptions.cursor.length
NoMorePages(documents, cursor) == Len(documents) = 0 /\ Len(cursor) > 0

\* What one call does, as a record: outcome, calls, the page, the cursor it
\* returns, and the array of the default page options afterwards.
PageOf(u, st, dflt, filterArgs, pageArgs) ==
  LET check == ErrorsCheck(u)
      filterOptions == MergeFilter(filterArgs)
      pageOptions == MergePage(pageArgs, dflt)
      orders == OrderByCalls(filterOptions)
      wheres == WhereCalls(filterOptions.where)
      built == <<StoreCall("collection", "")>> \o OrderCalls(orders) \o WhereStoreCalls(wheres)
      stepped == CursorAfterStep(pageOptions.cursor, pageOptions.direction)
      after == Boundary(pageOptions.cursor, pageOptions.direction)
      fetched == IF after = "" THEN built
                 ELSE built \o <<StoreCall("collection", ""), StoreCall("doc", after),
                                 StoreCall("get", after), StoreCall("startAfter", after)>>
      ids == Execute(st, orders, wheres, after, pageOptions.pageSize)
      queried == fetched \o <<StoreCall("limit", pageOptions.pageSize), StoreCall("get", "")>>
      cursor == PushBoundary(stepped, ids)
      shared == "cursor" \notin DOMAIN pageArgs
                  /\ ~Slices(pageOptions.cursor, pageOptions.direction)
      none == [outcome |-> check, calls |-> <<>>, queried |-> FALSE, stepped |-> <<>>,
               snapshots |-> <<>>, documents |-> <<>>, cursor |-> <<>>, dflt |-> dflt]
  IN  IF check # "pass" THEN none
      ELSE IF OrdersRejected(orders)
      THEN [none EXCEPT !.outcome = "StoreError",
                        !.calls = <<StoreCall("collection", "")>> \o OrderCalls(orders)]
      ELSE IF after # "" /\ ~ValidSnapshot(st, orders, after)
      THEN [none EXCEPT !.outcome = "StoreError", !.calls = fetched]
      ELSE [outcome |-> IF NoMorePages(DecodeAll(st, ids), cursor)
                        THEN "NoMorePagedData" ELSE "ok",
            calls |-> queried, queried |-> TRUE, stepped |-> stepped, snapshots |-> ids,
            documents |-> DecodeAll(st, ids), cursor |-> cursor,
            dflt |-> IF shared THEN cursor ELSE dflt]

\* The call as a step of the data source.
GetPage(filterArgs, pageArgs) ==
  LET r == PageOf(activeUser, store, defaultCursor, filterArgs, pageArgs)
  IN  /\ Len(r.dflt) <= MaxDefaultCursor
      /\ defaultCursor' = r.dflt
      /\ last' = Done("getPageOfDocuments", filterArgs, r.outcome, r.calls,
                      [queried |-> r.queried, stepped |-> r.stepped, snapshots |-> r.snapshots,
                       documents |-> r.documents, cursor |-> r.cursor])
      /\ UNCHANGED <<activeUser, store>>

GetPageOfDocuments ==
  /\ \E filterArgs \in FilterArgs, pageArgs \in PageArgs : GetPage(filterArgs, pageArgs)
  /\ UNCHANGED client

(***************************************************************************)
(* The caller awaits each operation and takes its result before it issues  *)
(* the next one.                                                           *)
(***************************************************************************)
Idle == Done("none", 0, "ok", <<>>, Undefined)

Respond ==
  /\ last.op # "none"
  /\ last' = Idle
  /\ UNCHANGED <<activeUser, store, defaultCursor, client>>

NoClient == [phase |-> "none"]

Init ==
  /\ activeUser = Undefined
  /\ store \in Stores(DocIds)
  /\ defaultCursor = <<>>
  /\ last = Idle
  /\ client = NoClient

Call ==
  \/ Initialize
  \/ UserSignUp
  \/ UserSignIn
  \/ UserRefreshIdToken
  \/ GetPageOfUsers
  \/ UpdateUserInfo
  \/ AddDocument
  \/ UpdateDocument
  \/ DeleteDocument
  \/ GetDocumentById
  \/ ListDocuments
  \/ GetDocuments
  \/ GetPageOfDocuments

Next == (last.op = "none" /\ Call) \/ Respond

Spec == Init /\ [][Next]_vars

(***************************************************************************)
(* The document operations, and updateUserInfo, under a session that stays *)
(* as it is: none of them assigns this.activeUser.  The session is the one *)
(* of a fresh instance, of a failed retrieval, or of a signed-up user.     *)
(***************************************************************************)
DocInit ==
  /\ activeUser \in {Undefined, ErrorsUser,
                      User([uid |-> "u1", email |-> "e1"], "t1", defaultCustomClaims)}
  /\ store \in Stores(DocIds)
  /\ defaultCursor = <<>>
  /\ last = Idle
  /\ client = NoClient

DocCall ==
  \/ UpdateUserInfo
  \/ AddDocument
  \/ UpdateDocument
  \/ DeleteDocument
  \/ GetDocumentById
  \/ ListDocuments
  \/ GetDocuments
  \/ GetPageOfDocuments

DocNext == (last.op = "none" /\ DocCall) \/ Respond

DocSpec == DocInit /\ [][DocNext]_vars

(***************************************************************************)
(* A client pages through one collection that stays as it is: it starts    *)
(* from an empty cursor and hands each call the cursor the call before     *)
(* returned, first forward until a call fails or finds nothing, and from   *)
(* any page on back, once for every page it received.                      *)
(***************************************************************************)
PagedIds == {DocNames[i] : i \in 1..MaxPagedDocs}

\* The filters whose ordering the store accepts.
PagedFilters ==
  {f \in FilterArgs : ~OrdersRejected(OrderByCalls(MergeFilter(f)))}

PagedSizes == 1..(MaxPagedDocs - 1)

Client(filterArgs, pageSize) ==
  [phase |-> "forward", filterArgs |-> filterArgs, pageSize |-> pageSize,
   cursor |-> <<>>, pages |-> <<>>, cursors |-> <<>>, backs |-> 0,
   backPage |-> <<>>, error |-> "none"]

ClientArgs(direction) ==
  ("pageSize" :> client.pageSize) @@ ("direction" :> direction) @@
  ("cursor" :> client.cursor)

ClientForward ==
  LET r == PageOf(activeUser, store, defaultCursor, client.filterArgs,
                  ClientArgs("forward"))
  IN  /\ client.phase = "forward"
      /\ GetPage(client.filterArgs, ClientArgs("forward"))
      /\ client' = IF r.outcome # "ok"
                    THEN [client EXCEPT !.phase = "failed", !.error = r.outcome]
                    ELSE IF r.snapshots = <<>>
                    THEN [client EXCEPT !.phase = "empty", !.cursor = r.cursor]
                    ELSE [client EXCEPT !.cursor = r.cursor,
                                        !.pages = Append(@, r.snapshots),
                                        !.cursors = Append(@, r.cursor)]

ClientBack ==
  LET r == PageOf(activeUser, store, defaultCursor, client.filterArgs,
                  ClientArgs("back"))
  IN  /\ client.phase \in {"forward", "back"}
      /\ client.backs < Len(client.pages)
      /\ GetPage(client.filterArgs, ClientArgs("back"))
      /\ client' = IF r.outcome # "ok"
                    THEN [client EXCEPT !.phase = "failed", !.error = r.outcome]
                    ELSE [client EXCEPT !.phase = "back", !.backs = @ + 1,
                                        !.cursor = r.cursor,
                                        !.backPage = r.snapshots]

PagingRespond ==
  /\ last.op # "none"
  /\ last' = Idle
  /\ UNCHANGED <<activeUser, store, defaultCursor, client>>

PagingInit ==
  /\ activeUser = User([uid |-> "u1", email |-> "e1"], "t1", defaultCustomClaims)
  /\ store \in Stores(PagedIds)
  /\ defaultCursor = <<>>
  /\ last = Idle
  /\ client \in {Client(f, n) : f \in PagedFilters, n \in PagedSizes}

PagingNext ==
  \/ last.op = "none" /\ ClientForward
  \/ last.op = "none" /\ ClientBack
  \/ PagingRespond

PagingSpec == PagingInit /\ [][PagingNext]_vars

\* The ordered result of the client's query, and the pages put end to end.
FullResult ==
  LET filterOptions == MergeFilter(client.filterArgs)
  IN  Execute(store, OrderByCalls(filterOptions), WhereCalls(filterOptions.where),
              "", Cardinality(DOMAIN store))

RECURSIVE Flatten(_)
Flatten(pages) ==
  IF pages = <<>> THEN <<>> ELSE Head(pages) \o Flatten(Tail(pages))

(***************************************************************************)
(* The user operations on an instance the framework has initialized: the   *)
(* session is the one initialize computed from the request, whatever the   *)
(* request and the provider's answer were.  The collection plays no part.  *)
(***************************************************************************)
InitializedSessions ==
  {retrieveUserFromRequest(header, ok, acct, raw) :
     header \in Tokens \cup {NoToken}, ok \in BOOLEAN,
     acct \in Accounts, raw \in RawClaims}

AuthInit ==
  /\ activeUser \in InitializedSessions
  /\ store = <<>>
  /\ defaultCursor = <<>>
  /\ last = Idle
  /\ client = NoClient

AuthCallNext ==
  \/ UserSignUp
  \/ UserSignIn
  \/ UserRefreshIdToken
  \/ GetPageOfUsers
  \/ UpdateUserInfo

\* The caller takes the result.  It remembers the tokens of a successful
\* refresh, the one it presented and the one it was issued, for as long as
\* it does not sign in or up anew.
Refreshed(l) ==
  l.op = "userRefreshIdToken" /\ l.outcome = "ok" /\ l.result.kind = "user"

SignedAnew(l) == l.op \in {"userSignIn", "userSignUp"} /\ l.outcome = "ok"

AuthRespond ==
  /\ last.op # "none"
  /\ last' = Idle
  /\ client' = IF Refreshed(last)
                THEN [phase |-> "refreshed", old |-> last.arg.token,
                      new |-> last.result.token]
                ELSE IF SignedAnew(last) THEN NoClient
                ELSE client
  /\ UNCHANGED <<activeUser, store, defaultCursor>>

AuthNext == (last.op = "none" /\ AuthCallNext) \/ AuthRespond

AuthSpec == AuthInit /\ [][AuthNext]_vars

(***************************************************************************)
(* Properties.                                                             *)
(***************************************************************************)

\* C1: every document operation run while the data source holds no verified
\* user (no token, or a token that failed verification) raises an error and
\* issues no call to the document store.
C1_NoUserNoStoreCall ==
  (/\ last.op \in {"addDocument", "updateDocument", "deleteDocument",
                   "getDocumentById", "listDocuments", "getDocuments",
                   "getPageOfDocuments"}
   /\ activeUser.kind # "user")
  => (Threw(last) /\ StoreCalls(last) = {})

\* A paged read under the session of a failed retrieval has thrown.
C1_Witness ==
  /\ last.op = "getPageOfDocuments"
  /\ activeUser.kind = "errors"
  /\ last.outcome = "UserAuthenticationError"
  /\ last.calls = <<>>

\* C2: getPageOfUsers calls listUsers if and only if an active user exists
\* and its admin claim is true.
C2_ListUsersIffAdminTrue ==
  last.op = "getPageOfUsers" =>
    (AuthCalls(last, "listUsers") # {}
       <=> (/\ activeUser.kind = "user"
            /\ "admin" \in DOMAIN activeUser.customClaims
            /\ activeUser.customClaims["admin"] = JSBool(TRUE)))

\* C3: an authenticated caller that fails the admin test of getPageOfUsers
\* (admin false), or the self-or-admin test of updateUserInfo (admin false
\* and another target email), gets the error NotAuthorized and never a
\* normal completion.
C3_DeniedRaisesNotAuthorized ==
  LET adminFalse == /\ activeUser.kind = "user"
                    /\ "admin" \in DOMAIN activeUser.customClaims
                    /\ activeUser.customClaims["admin"] = JSBool(FALSE)
  IN  /\ (last.op = "getPageOfUsers" /\ adminFalse)
           => last.outcome = "NotAuthorized"
      /\ (/\ last.op = "updateUserInfo"
          /\ adminFalse
          /\ ("email" \notin DOMAIN last.arg \/ last.arg["email"] # activeUser.email))
           => last.outcome = "NotAuthorized"

\* C4: updateUserInfo called by a user whose admin claim is false issues no
\* setCustomUserClaims and no updateUser for a uid other than the caller's.
C4_NonAdminUpdatesOnlySelf ==
  (/\ last.op = "updateUserInfo"
   /\ activeUser.kind = "user"
   /\ "admin" \in DOMAIN activeUser.customClaims
   /\ activeUser.customClaims["admin"] = JSBool(FALSE))
  => \A i \in AuthCalls(last, "setCustomUserClaims") \cup AuthCalls(last, "updateUser") :
       last.calls[i].arg.uid = activeUser.uid

\* C5: whenever initialize (retrieveUserFromToken), userSignIn or
\* userRefreshIdToken produces a user, its customClaims holds admin with a
\* boolean value, false when the provider's claims had no admin entry.
C5_AdminIsBoolean ==
  (/\ last.op \in {"initialize", "userSignIn", "userRefreshIdToken"}
   /\ last.outcome = "ok"
   /\ last.result.kind = "user")
  => /\ "admin" \in DOMAIN last.result.customClaims
     /\ last.result.customClaims["admin"].t = "boolean"
     /\ ~last.arg.hadAdmin => last.result.customClaims["admin"] = JSBool(FALSE)

\* C6: the customClaims of a produced user never holds a reserved claim
\* name of the deny-list, user_id included.
C6_NoReservedClaim ==
  (/\ last.op \in {"initialize", "userSignIn", "userRefreshIdToken"}
   /\ last.outcome = "ok"
   /\ last.result.kind = "user")
  => \A k \in DOMAIN last.result.customClaims :
       k \notin {"iss", "aud", "auth_time", "user_id", "sub", "iat", "exp",
                 "firebase", "acr", "amr", "at_hash", "azp", "cnf", "c_hash",
                 "jti", "nbf", "nonce"}

\* C7: a document returned by addDocument, getDocumentById, getDocuments or
\* getPageOfDocuments has as id the identifier the store assigned, also when
\* the stored data holds a field named id.
C7_IdentifierWins ==
  (/\ last.op \in {"addDocument", "getDocumentById", "getDocuments",
                   "getPageOfDocuments"}
   /\ last.outcome = "ok")
  => \A i \in DOMAIN last.result.snapshots :
       last.result.documents[i]["id"] = last.result.snapshots[i]

\* C8 as stated: N forward pages and then N back calls, each on the cursor
\* the call before returned, end with an empty boundary list.
C8_RoundTripEmpty ==
  (/\ client.phase = "back"
   /\ client.backs = Len(client.pages))
  => client.cursor = <<>>

\* C8: N >= 1 forward pages and then N back calls, each on the cursor the
\* call before returned, end with a boundary list of exactly one id, the id
\* of the last document of the first page, and on the first page again.
C8_RoundTripFirstBoundary ==
  (/\ client.phase = "back"
   /\ client.backs = Len(client.pages))
  => /\ client.cursor = <<client.pages[1][Len(client.pages[1])]>>
     /\ client.backPage = client.pages[1]

\* Two or more pages forward and as many calls back.
C8_Witness ==
  /\ client.phase = "back"
  /\ Len(client.pages) >= 2
  /\ client.backs = Len(client.pages)

\* C9: paging forward from an empty cursor over a collection and an
\* ordering that stay as they are: each page holds at least one and at most
\* pageSize documents, the pages put end to end are the start of the
\* ordered result (nothing skipped, nothing repeated), after each page the
\* last cursor entry is the id of the last document of the page, and the
\* run ends, once every document was returned, with the error
\* 'No more paged data.'; only an empty result ends it without an error.
C9_ForwardPaging ==
  (client.phase \in {"forward", "failed", "empty"} /\ client.backs = 0)
  => LET seen == Flatten(client.pages)
     IN  /\ \A k \in DOMAIN client.pages :
               /\ Len(client.pages[k]) >= 1
               /\ Len(client.pages[k]) <= client.pageSize
         /\ Len(seen) <= Len(FullResult)
         /\ seen = SubSeq(FullResult, 1, Len(seen))
         /\ client.pages # <<>> =>
              client.cursor[Len(client.cursor)] = seen[Len(seen)]
         /\ Len(client.cursor) = Len(client.pages)
         /\ client.phase = "failed" =>
              /\ client.error = "NoMorePagedData"
              /\ seen = FullResult
              /\ seen # <<>>
         /\ client.phase = "empty" => (client.pages = <<>> /\ FullResult = <<>>)

\* A run of two pages, the first one full, that ended with the error.
C9_Witness ==
  /\ client.phase = "failed"
  /\ client.backs = 0
  /\ client.pageSize = 2
  /\ Len(client.pages) = 2
  /\ Len(client.pages[1]) = 2
  /\ client.error = "NoMorePagedData"

\* C10: getPageOfDocuments raises 'No more paged data.' exactly when the
\* query it executed returned no document and the boundary list, after the
\* truncation of a back step, is not empty; with an empty boundary list a
\* query that matches nothing returns an empty list and no error.
C10_NoMorePagesExactly ==
  last.op = "getPageOfDocuments" =>
    /\ last.outcome = "NoMorePagedData"
         <=> (/\ last.result.queried
              /\ Len(last.result.snapshots) = 0
              /\ Len(last.result.stepped) > 0)
    /\ (/\ last.result.queried
        /\ Len(last.result.snapshots) = 0
        /\ Len(last.result.stepped) = 0)
         => (last.outcome = "ok" /\ last.result.documents = <<>>)

\* A query past the last document, on a boundary list that is not empty.
C10_Witness ==
  /\ last.op = "getPageOfDocuments"
  /\ last.outcome = "NoMorePagedData"
  /\ last.result.queried
  /\ Len(last.result.stepped) > 0
  /\ DOMAIN store # {}

\* C11: whatever the filter, the caller's or the defaults, no where call
\* of getPageOfDocuments reaches the store with an empty field name, an
\* empty operator or an empty value; such entries are skipped.
C11_NoEmptyWhere ==
  last.op = "getPageOfDocuments" =>
    \A i \in DOMAIN last.calls :
      last.calls[i].api = "where" =>
        /\ last.calls[i].arg.field # ""
        /\ last.calls[i].arg.op # ""
        /\ last.calls[i].arg.value \notin {JSStr(<<>>), JSUndefined}

\* A filter of several predicates, some of them empty, of which the call
\* forwarded one.
C11_Witness ==
  /\ last.op = "getPageOfDocuments"
  /\ last.outcome = "ok"
  /\ "where" \in DOMAIN last.arg
  /\ \E item \in {last.arg["where"][k] : k \in DOMAIN last.arg["where"]} :
       item.operator = ""
  /\ \E i \in DOMAIN last.calls : last.calls[i].api = "where"

\* C12: whatever the orderBy string, a trailing or doubled comma included,
\* listDocuments, getDocuments and getPageOfDocuments issue no orderBy call
\* with an empty field name.
C12_NoEmptyOrderBy ==
  last.op \in {"listDocuments", "getDocuments", "getPageOfDocuments"} =>
    \A i \in DOMAIN last.calls :
      last.calls[i].api = "orderBy" => last.calls[i].arg.field # ""

\* C13: initialize on a request whose token the identity provider rejects
\* fails with an error; initialize on a request without a token completes
\* without an error and leaves the data source without an active user.
C13_InitializeErrors ==
  last.op = "initialize" =>
    /\ (AuthCalls(last, "signInWithCustomToken") # {} /\ ~last.arg.verified)
         => Threw(last)
    /\ last.calls = <<>> => (~Threw(last) /\ activeUser.kind # "user")

\* C14: once initialize has completed, no later operation changes the
\* active user the instance holds.
C14_ActiveUserImmutable == [][activeUser' = activeUser]_vars

\* C15: userRefreshIdToken called with a token other than the active
\* user's, or without a verified active user, fails with the token-mismatch
\* error and calls the identity provider not once; called with the matching
\* token that the provider verifies anew, it returns a user whose token is
\* the newly issued one and not the one presented.
C15_RefreshMismatchOrNewToken ==
  last.op = "userRefreshIdToken" =>
    /\ (/\ last.arg.token # NoToken
        /\ (activeUser.kind # "user" \/ activeUser.token # last.arg.token))
         => (last.outcome = "TokenMismatch" /\ last.calls = <<>>)
    /\ (/\ activeUser.kind = "user"
        /\ last.arg.token = activeUser.token
        /\ last.arg.verified)
         => /\ last.outcome = "ok"
            /\ last.result.kind = "user"
            /\ last.result.token # last.arg.token

\* C20: userRefreshIdToken leaves the active user of the instance as it
\* was, whatever its outcome; so after a successful refresh the token of
\* the session is still the old one, a further refresh with the old token
\* passes the match test and a refresh with the newly issued token fails it.
C20_RefreshLeavesSession ==
  /\ [][last'.op = "userRefreshIdToken" => activeUser' = activeUser]_vars
  /\ []((client.phase = "refreshed" /\ ~SignedAnew(last))
          => activeUser.token = client.old)
  /\ []((last.op = "userRefreshIdToken" /\ client.phase = "refreshed")
          => /\ last.arg.token = client.old => last.outcome # "TokenMismatch"
             /\ last.arg.token = client.new => last.outcome = "TokenMismatch")

\* A refresh with the token an earlier refresh issued, and its failure.
C20_Witness ==
  /\ last.op = "userRefreshIdToken"
  /\ client.phase = "refreshed"
  /\ last.arg.token = client.new
  /\ last.outcome = "TokenMismatch"
  /\ activeUser.token = client.old

\* C16: over a collection that stays as it is, after k forward pages from
\* an empty cursor, one call with direction back on the cursor returned
\* last yields, for k >= 2, the documents of page k-1 and the cursor that
\* came with page k-1, and for k = 1 the first page again and a cursor of
\* one entry.
C16_BackStep ==
  (client.phase = "back" /\ client.backs = 1)
  => LET k == Len(client.pages)
     IN  IF k >= 2
         THEN /\ client.backPage = client.pages[k - 1]
              /\ client.cursor = client.cursors[k - 1]
         ELSE /\ client.backPage = client.pages[1]
              /\ Len(client.cursor) = 1

\* Three pages forward and one call back, onto the second page.
C16_Witness ==
  /\ client.phase = "back"
  /\ client.backs = 1
  /\ Len(client.pages) = 3
  /\ client.backPage = client.pages[2]
  /\ client.backPage # client.pages[1]

\* C17: the array of the default page options stays empty whatever calls
\* of getPageOfDocuments were made, so that a call without a cursor of its
\* own starts at the first page.
C17_DefaultCursorStaysEmpty == defaultCursor = <<>>

C19_NonAdminGrantsNoAdmin ==
  (/\ activeUser.kind = "user"
   /\ "admin" \in DOMAIN activeUser.customClaims
   /\ activeUser.customClaims["admin"] = JSBool(FALSE))
  => \A i \in AuthCalls(last, "setCustomUserClaims") :
       last.calls[i].arg.claims["admin"] # JSBool(TRUE)

====
